---- MODULE Spec2Model ----
(***************************************************************************)
(* A model of sentence.py: first-order sentences, the transformation       *)
(* passes that make up cnf(), substitution and unification.                *)
(*                                                                         *)
(* Every object of the program (Variable, Function, Sentence) is a record  *)
(*   [tag, name, seq, set]                                                 *)
(* tag  : the class of the object,                                         *)
(* name : RecursiveObject.name ("" stands for None); for a Variable it is  *)
(*        the identity of the object, for a Quantifier the identity of the *)
(*        bound Variable,                                                  *)
(* seq  : content when it is a tuple (ordered),                            *)
(* set  : content when it is a frozenset (And, Or, IFF of two operands).   *)
(* A raised exception is the record with tag "Error" and the exception     *)
(* class as its name.                                                      *)
(***************************************************************************)
EXTENDS Integers, Sequences, FiniteSets, TLC

VARIABLES sent, stash, res, ua, ub, ures, objs, symbol, userFuncs

vars == <<sent, stash, res, ua, ub, ures, objs, symbol, userFuncs>>

(***************************************************************************)
(* Bounds                                                                  *)
(***************************************************************************)
MaxNodes == 5
MaxArity == 2
MaxAddr == 2
MaxObjs == 3

Range(q) == {q[i] : i \in DOMAIN q}

Node(t, n, q, c) == [tag |-> t, name |-> n, seq |-> q, set |-> c]

NoName == ""
NoValue == Node("None", NoName, <<>>, {})
Err(kind) == Node("Error", kind, <<>>, {})
IsError(r) == r.tag = "Error"

(***************************************************************************)
(* Constructors                                                            *)
(***************************************************************************)
Variable(v) == Node("Variable", v, <<>>, {})
Function(n, args) == Node("Function", n, args, {})
Predicate(n, args) == Node("Predicate", n, args, {})
Not(s) == Node("Not", NoName, <<s>>, {})
Implies(a, b) == Node("Implies", NoName, <<a, b>>, {})
IFF(a, b) == IF a = b THEN Node("IFF", NoName, <<a, b>>, {})
                      ELSE Node("IFF", NoName, <<>>, {a, b})
And(S) == Node("And", NoName, <<>>, S)
Or(S) == Node("Or", NoName, <<>>, S)
ForAll(v, s) == Node("ForAll", v, <<s>>, {})
Exists(v, s) == Node("Exists", v, <<s>>, {})

IsVariable(t) == t.tag = "Variable"
IsFunction(t) == t.tag = "Function"
IsPredicate(t) == t.tag = "Predicate"
IsQuantifier(t) == t.tag \in {"ForAll", "Exists"}
IsACOperator(t) == t.tag \in {"And", "Or"}

Content(s) == Range(s.seq) \cup s.set

\* RecursiveObject.copy: rebuild an object of the same class (and name) from
\* new content; q replaces a tuple content, c a frozenset content.
copy(self, q, c) ==
    IF self.tag = "IFF"
    THEN IF q # <<>> THEN IFF(q[1], q[2])
         ELSE IF Cardinality(c) = 1 THEN (LET r == CHOOSE r \in c : TRUE IN IFF(r, r))
         ELSE Node("IFF", NoName, <<>>, c)
    ELSE Node(self.tag, self.name, q, c)

\* The decorator `recursive`: self.copy(f(sentence) for sentence in
\* self.content), where q holds the values of f for a tuple content and c those
\* for a frozenset content.  An exception raised for an element leaves the
\* generator and the copy: for a tuple the first element (left to right) that
\* raises decides, for a frozenset the element the iteration meets first.
recursive(self, q, c) ==
    LET bad == {i \in DOMAIN q : IsError(q[i])}
        badc == {r \in c : IsError(r)}
    IN IF bad # {} THEN q[CHOOSE i \in bad : \A j \in bad : i <= j]
       ELSE IF badc # {} THEN CHOOSE r \in badc : TRUE
       ELSE copy(self, q, c)

(***************************************************************************)
(* Substitution (module substitution): a mapping from Variable to term,    *)
(* kept as a set of <<variable identity, term>> pairs.                     *)
(***************************************************************************)
Keys(subst) == {p[1] : p \in subst}
SubstContains(subst, v) == v \in Keys(subst)
SubstLookup(subst, t) ==
    IF SubstContains(subst, t.name)
    THEN (CHOOSE p \in subst : p[1] = t.name)[2]
    ELSE t
SubstAssign(subst, v, t) == {p \in subst : p[1] # v} \cup {<<v, t>>}

(***************************************************************************)
(* free_variables                                                          *)
(***************************************************************************)
RECURSIVE free_variables(_)
free_variables(self) ==
    IF self.tag \in {"Function", "Predicate"}
    THEN {x.name : x \in {t \in Range(self.seq) : IsVariable(t)}}
         \cup UNION {free_variables(f) : f \in {t \in Range(self.seq) : IsFunction(t)}}
    ELSE IF IsQuantifier(self)
    THEN UNION {free_variables(c) : c \in Content(self)} \ {self.name}
    ELSE UNION {free_variables(c) : c \in Content(self)}

\* Sentence.free_variables as Quantifier.cleaned calls it through super():
\* the free variables of the content, the bound variable not discarded.
SentenceFreeVariables(self) == UNION {free_variables(c) : c \in Content(self)}

(***************************************************************************)
(* Function.substituted: <<new term, whether anything was substituted>>    *)
(***************************************************************************)
RECURSIVE substituted(_, _)
substituted(self, dic) ==
    LET one(cont) ==
            IF IsVariable(cont) /\ SubstContains(dic, cont.name)
            THEN <<SubstLookup(dic, cont), TRUE>>
            ELSE IF IsFunction(cont) THEN substituted(cont, dic)
            ELSE <<cont, FALSE>>
        rs == [i \in DOMAIN self.seq |-> one(self.seq[i])]
    IN <<copy(self, [i \in DOMAIN rs |-> rs[i][1]], {}),
         \E i \in DOMAIN rs : rs[i][2]>>

\* Predicate.substitute
PredicateSubstitute(self, substitution) ==
    copy(self,
         [i \in DOMAIN self.seq |->
            IF IsFunction(self.seq[i]) THEN substituted(self.seq[i], substitution)[1]
            ELSE SubstLookup(substitution, self.seq[i])],
         {})

\* Quantifier.substitute testing the replacement terms instead of the keys
BoundIsValue(self, subst) == \E p \in subst : p[2] = Variable(self.name)

\* The guard of Quantifier.substitute: the bound variable is a key.
BoundIsKey(self, subst) == SubstContains(subst, self.name)

RECURSIVE substitute(_, _)
substitute(self, subst) ==
    IF IsPredicate(self) THEN PredicateSubstitute(self, subst)
    ELSE IF IsQuantifier(self) /\ BoundIsKey(self, subst) THEN Err("ValueError")
    ELSE recursive(self,
                   [i \in DOMAIN self.seq |-> substitute(self.seq[i], subst)],
                   {substitute(k, subst) : k \in self.set})

(***************************************************************************)
(* unify                                                                   *)
(*                                                                         *)
(* The value of a unify call: a Substitution (kind "Substitution", map its *)
(* bindings), None (kind "None", the "no unifier" value) or a raised       *)
(* exception (kind the exception class).                                   *)
(***************************************************************************)
Substitution(m) == [kind |-> "Substitution", map |-> m]
None == [kind |-> "None", map |-> {}]
Raised(kind) == [kind |-> kind, map |-> {}]

\* substitution[v] = t.  Item assignment to None raises TypeError.
SetItem(substitution, v, t) ==
    IF substitution.kind = "Substitution"
    THEN Substitution(SubstAssign(substitution.map, v.name, t))
    ELSE IF substitution.kind = "None" THEN Raised("TypeError")
    ELSE substitution

\* substitution &= other: the merge of module substitution.  It yields the
\* "no unifier" value when an operand is that value or when the operands bind
\* one Variable to different terms.
SubstMerge(substitution, other) ==
    IF substitution.kind \notin {"Substitution", "None"} THEN substitution
    ELSE IF substitution.kind = "None" \/ other.kind = "None" THEN None
    ELSE IF \E p \in substitution.map, q \in other.map : p[1] = q[1] /\ p[2] # q[2]
    THEN None
    ELSE Substitution(substitution.map \cup other.map)

\* the loop of Function.unify from argument pair i on
RECURSIVE FunctionUnifyFrom(_, _, _, _)
FunctionUnifyFrom(self, other, i, substitution) ==
    IF i > Len(self.seq) THEN substitution
    ELSE LET selfc == self.seq[i]
             otherc == other.seq[i]
         IN IF selfc = otherc
            THEN FunctionUnifyFrom(self, other, i + 1, substitution)
            ELSE IF IsVariable(selfc)
            THEN FunctionUnifyFrom(self, other, i + 1, SetItem(substitution, selfc, otherc))
            ELSE IF IsVariable(otherc)
            THEN FunctionUnifyFrom(self, other, i + 1, SetItem(substitution, otherc, selfc))
            ELSE None

FunctionUnify(self, other) ==
    IF IsFunction(other) /\ self.name = other.name /\ Len(self.seq) = Len(other.seq)
    THEN FunctionUnifyFrom(self, other, 1, Substitution({}))
    ELSE None

\* the loop of Predicate.unify from argument pair i on; an exception ends it
RECURSIVE PredicateUnifyFrom(_, _, _, _)
PredicateUnifyFrom(self, other, i, substitution) ==
    IF substitution.kind \notin {"Substitution", "None"} THEN substitution
    ELSE IF i > Len(self.seq) THEN substitution
    ELSE LET selfc == self.seq[i]
             otherc == other.seq[i]
         IN IF selfc = otherc
            THEN PredicateUnifyFrom(self, other, i + 1, substitution)
            ELSE IF IsVariable(selfc)
            THEN PredicateUnifyFrom(self, other, i + 1, SetItem(substitution, selfc, otherc))
            ELSE IF IsVariable(otherc)
            THEN PredicateUnifyFrom(self, other, i + 1, SetItem(substitution, otherc, selfc))
            ELSE IF IsFunction(selfc) /\ IsFunction(otherc)
            THEN PredicateUnifyFrom(self, other, i + 1,
                                    SubstMerge(substitution, FunctionUnify(selfc, otherc)))
            ELSE None

PredicateUnify(self, other) ==
    IF IsPredicate(other) /\ self.name = other.name /\ Len(self.seq) = Len(other.seq)
    THEN PredicateUnifyFrom(self, other, 1, Substitution({}))
    ELSE None

(***************************************************************************)
(* simplified                                                              *)
(***************************************************************************)
RECURSIVE simplified(_)
simplified(self) ==
    IF IsPredicate(self) THEN copy(self, self.seq, {})
    ELSE IF self.tag = "Implies"
    THEN Or({Not(simplified(self.seq[1])), simplified(self.seq[2])})
    ELSE IF self.tag = "IFF"
    THEN LET a == IF self.seq # <<>> THEN self.seq[1] ELSE CHOOSE k \in self.set : TRUE
             b == IF self.seq # <<>> THEN self.seq[2] ELSE CHOOSE k \in self.set : k # a
         IN And({simplified(Implies(a, b)), simplified(Implies(b, a))})
    ELSE recursive(self,
                   [i \in DOMAIN self.seq |-> simplified(self.seq[i])],
                   {simplified(k) : k \in self.set})

(***************************************************************************)
(* negated_inwards                                                         *)
(***************************************************************************)
Dual(tag) == CASE tag = "And" -> "Or" [] tag = "Or" -> "And"
               [] tag = "ForAll" -> "Exists" [] tag = "Exists" -> "ForAll"

RECURSIVE negated_inwards(_, _)
negated_inwards(self, negate) ==
    IF IsPredicate(self)
    THEN (IF negate THEN Not(copy(self, self.seq, {})) ELSE copy(self, self.seq, {}))
    ELSE IF self.tag = "Not" THEN negated_inwards(self.seq[1], ~negate)
    ELSE IF IsACOperator(self) \/ IsQuantifier(self)
    THEN LET target == Node(IF negate THEN Dual(self.tag) ELSE self.tag,
                            self.name, self.seq, self.set)
         IN recursive(target,
                      [i \in DOMAIN target.seq |-> negated_inwards(target.seq[i], negate)],
                      {negated_inwards(k, negate) : k \in target.set})
    ELSE Err("AttributeError")

(***************************************************************************)
(* skolemised                                                              *)
(*                                                                         *)
(* id(self) is the address of the Exists object; addr gives the address of *)
(* the Exists object binding each variable and ord the order in which the  *)
(* set `variables` is iterated.  Both are properties of the run, chosen by *)
(* the action that calls skolemised.                                       *)
(***************************************************************************)
Digits == <<"0", "1", "2", "3", "4", "5", "6", "7", "8", "9">>

RECURSIVE str(_)
str(n) == IF n < 10 THEN Digits[n + 1]
          ELSE str(n \div 10) \o Digits[(n % 10) + 1]

\* *variables: the Variables of the scope in iteration order
Unpack(variables, ord) ==
    LET q == SelectSeq(ord, LAMBDA v : v \in variables)
    IN [i \in DOMAIN q |-> Variable(q[i])]

\* the Skolem substitution keyed by the symbol instead of the bound Variable
SkolemSubstitutionBySymbol(self, variables, addr, ord) ==
    {<<str(addr[self.name]), Function(str(addr[self.name]), Unpack(variables, ord))>>}

\* s = sub.Substitution({self.name: Function(str(id(self)), *variables)})
SkolemSubstitution(self, variables, addr, ord) ==
    {<<self.name, Function(str(addr[self.name]), Unpack(variables, ord))>>}

RECURSIVE skolemised(_, _, _, _)
skolemised(self, variables, addr, ord) ==
    IF IsPredicate(self) THEN copy(self, self.seq, {})
    ELSE IF self.tag = "ForAll"
    THEN skolemised(self.seq[1], {self.name} \cup variables, addr, ord)
    ELSE IF self.tag = "Exists"
    THEN LET s == SkolemSubstitution(self, variables, addr, ord)
             body == substitute(self.seq[1], s)
         IN IF IsError(body) THEN body
            ELSE skolemised(body, variables, addr, ord)
    ELSE recursive(self,
                   [i \in DOMAIN self.seq |-> skolemised(self.seq[i], variables, addr, ord)],
                   {skolemised(k, variables, addr, ord) : k \in self.set})

(***************************************************************************)
(* cleaned                                                                 *)
(***************************************************************************)
\* the single-operand test made on the operands before they were cleaned
SoleOperandOfSelf(self, new) == Cardinality(self.set) = 1

\* if len(new.content) == 1
SoleOperand(self, new) == Cardinality(new.set) = 1

RECURSIVE cleaned(_)
cleaned(self) ==
    IF IsPredicate(self) THEN copy(self, self.seq, {})
    ELSE IF IsQuantifier(self)
    THEN IF self.name \in SentenceFreeVariables(self)
         THEN recursive(self,
                        [i \in DOMAIN self.seq |-> cleaned(self.seq[i])],
                        {cleaned(k) : k \in self.set})
         ELSE cleaned(self.seq[1])
    ELSE IF IsACOperator(self)
    THEN LET new == recursive(self,
                              [i \in DOMAIN self.seq |-> cleaned(self.seq[i])],
                              {cleaned(k) : k \in self.set})
         IN IF IsError(new) THEN new
            ELSE IF SoleOperand(self, new)
            THEN cleaned(CHOOSE k \in new.set : TRUE)
            ELSE LET newcont == UNION {IF cont.tag = new.tag THEN cont.set ELSE {cont} :
                                       cont \in new.set}
                 IN Node(self.tag, NoName, <<>>, newcont)
    ELSE recursive(self,
                   [i \in DOMAIN self.seq |-> cleaned(self.seq[i])],
                   {cleaned(k) : k \in self.set})

(***************************************************************************)
(* distributed                                                             *)
(*                                                                         *)
(* And and Or inherit AssociativeCommutativeBinaryOperator.distributed,    *)
(* which takes a second positional argument: the call distributed() of the *)
(* pipeline and of `recursive` raises TypeError.  Every other class has    *)
(* Sentence.distributed, which asks each element of content to distribute; *)
(* Variable and Function have no such method (AttributeError).             *)
(***************************************************************************)
RECURSIVE distributed(_)
distributed(self) ==
    IF IsACOperator(self) THEN Err("TypeError")
    ELSE IF IsVariable(self) \/ IsFunction(self) THEN Err("AttributeError")
    ELSE recursive(self,
                   [i \in DOMAIN self.seq |-> distributed(self.seq[i])],
                   {distributed(k) : k \in self.set})

(***************************************************************************)
(* cnf: the five passes in order; an exception ends the chain.             *)
(***************************************************************************)
\* self.simplified().negated_inwards().skolemised().cleaned()
beforeDistributed(self, addr, ord) ==
    LET s1 == simplified(self)
        s2 == IF IsError(s1) THEN s1 ELSE negated_inwards(s1, FALSE)
        s3 == IF IsError(s2) THEN s2 ELSE skolemised(s2, {}, addr, ord)
    IN IF IsError(s3) THEN s3 ELSE cleaned(s3)

cnf(self, addr, ord) ==
    LET s4 == beforeDistributed(self, addr, ord)
    IN IF IsError(s4) THEN s4 ELSE distributed(s4)

(***************************************************************************)
(* The caller: builds a sentence from the constructors and applies the     *)
(* entry points to it.  sent is the sentence under construction, stash a   *)
(* second sentence kept aside as operand of a binary connective, res the   *)
(* record of the last call.                                                *)
(***************************************************************************)
Vars == {"x", "y"}
x == Variable("x")
y == Variable("y")

Atoms == {Predicate("P", <<>>),
          Predicate("Loves", <<x, y>>),
          Predicate("Q", <<Function("f", <<y>>)>>)}

\* the quantifiers the caller writes; a Not above them gives the pipeline the
\* dual ones
Quantifiers == {<<"ForAll", "x">>, <<"Exists", "y">>}

\* the substitutions a caller passes to substitute
Substitutions ==
    {{<<"x", y>>},
     {<<"y", Function("a", <<>>)>>},
     {<<"x", Function("a", <<>>)>>, <<"y", Function("f", <<x>>)>>}}

Addresses == 1..MaxAddr

\* what a run fixes: the addresses of the Exists objects and the iteration
\* order of a set of Variables
Runs == {[addr |-> [v \in Vars |-> 1], ord |-> <<"x", "y">>],
         [addr |-> [v \in Vars |-> IF v = "x" THEN 1 ELSE MaxAddr], ord |-> <<"y", "x">>]}

RECURSIVE Size(_)
RECURSIVE SizeAll(_)
Size(s) == IF s.tag \in {"None", "Predicate"} THEN (IF s.tag = "None" THEN 0 ELSE 1)
           ELSE 1 + SizeAll(Content(s)) + (IF s.tag = "IFF" /\ s.seq # <<>> THEN Size(s.seq[1]) ELSE 0)
SizeAll(S) == IF S = {} THEN 0
              ELSE LET k == CHOOSE k \in S : TRUE IN Size(k) + SizeAll(S \ {k})

NoUnify == [op |-> "none", out |-> None, left |-> NoValue, right |-> NoValue]
NoRes == [op |-> "none", arg |-> NoValue, subst |-> {}, mid |-> NoValue, out |-> NoValue]
Call(op, arg, subst, mid, out) ==
    [op |-> op, arg |-> arg, subst |-> subst, mid |-> mid, out |-> out]

Fits(extra) == Size(sent) + Size(stash) + extra <= MaxNodes

idleUnify == ua = NoValue /\ ub = NoValue /\ ures = NoUnify
idleCaller == sent = NoValue /\ stash = NoValue /\ res = NoRes
idleHeap == objs = <<>> /\ symbol = <<>> /\ userFuncs = {}
othersUnchanged == UNCHANGED <<ua, ub, ures, objs, symbol, userFuncs>>

Init ==
    /\ sent \in Atoms
    /\ stash = NoValue
    /\ res = NoRes
    /\ idleUnify
    /\ idleHeap

\* keep the sentence aside and start another one from a Predicate
NewPredicate(p) ==
    /\ res = NoRes
    /\ stash = NoValue
    /\ Fits(1)
    /\ stash' = sent
    /\ sent' = p
    /\ UNCHANGED res
    /\ othersUnchanged

NewNot ==
    /\ res = NoRes
    /\ Fits(1)
    /\ sent' = Not(sent)
    /\ UNCHANGED <<stash, res>>
    /\ othersUnchanged

NewQuantifier(tag, v) ==
    /\ res = NoRes
    /\ Fits(1)
    /\ sent' = Node(tag, v, <<sent>>, {})
    /\ UNCHANGED <<stash, res>>
    /\ othersUnchanged

\* And(formula1) / Or(formula1): a single operand
NewSingle(tag) ==
    /\ res = NoRes
    /\ Fits(1)
    /\ sent' = Node(tag, NoName, <<>>, {sent})
    /\ UNCHANGED <<stash, res>>
    /\ othersUnchanged

\* And(stash, sent) / Or(stash, sent)
NewACOperator(tag) ==
    /\ res = NoRes
    /\ stash # NoValue
    /\ Fits(1)
    /\ sent' = Node(tag, NoName, <<>>, {stash, sent})
    /\ stash' = NoValue
    /\ UNCHANGED res
    /\ othersUnchanged

\* And(formula1, *formulas) / Or(formula1, *formulas) with the operands of the
\* stashed And/Or and the sentence under construction as one more operand
AddOperand ==
    /\ res = NoRes
    /\ stash # NoValue
    /\ IsACOperator(stash)
    /\ Fits(0)
    /\ sent' = Node(stash.tag, NoName, <<>>, stash.set \cup {sent})
    /\ stash' = NoValue
    /\ UNCHANGED res
    /\ othersUnchanged

NewImplies ==
    /\ res = NoRes
    /\ stash # NoValue
    /\ Fits(1)
    /\ sent' = Implies(stash, sent)
    /\ stash' = NoValue
    /\ UNCHANGED res
    /\ othersUnchanged

NewIFF ==
    /\ res = NoRes
    /\ stash # NoValue
    /\ Fits(1)
    /\ sent' = IFF(stash, sent)
    /\ stash' = NoValue
    /\ UNCHANGED res
    /\ othersUnchanged

Substitute(subst) ==
    /\ stash = NoValue
    /\ res = NoRes
    /\ res' = Call("substitute", sent, subst, NoValue, substitute(sent, subst))
    /\ UNCHANGED <<sent, stash>>
    /\ othersUnchanged

Skolemise(run) ==
    /\ stash = NoValue
    /\ res = NoRes
    /\ res' = Call("skolemised", sent, {}, NoValue, skolemised(sent, {}, run.addr, run.ord))
    /\ UNCHANGED <<sent, stash>>
    /\ othersUnchanged

Clean ==
    /\ stash = NoValue
    /\ res = NoRes
    /\ res' = Call("cleaned", sent, {}, NoValue, cleaned(sent))
    /\ UNCHANGED <<sent, stash>>
    /\ othersUnchanged

Distribute ==
    /\ stash = NoValue
    /\ res = NoRes
    /\ res' = Call("distributed", sent, {}, NoValue, distributed(sent))
    /\ UNCHANGED <<sent, stash>>
    /\ othersUnchanged

Cnf(run) ==
    /\ stash = NoValue
    /\ res = NoRes
    /\ res' = Call("cnf", sent, {}, beforeDistributed(sent, run.addr, run.ord),
                 cnf(sent, run.addr, run.ord))
    /\ UNCHANGED <<sent, stash>>
    /\ othersUnchanged

\* the caller drops the result of the last call
Discard ==
    /\ res # NoRes
    /\ res' = NoRes
    /\ UNCHANGED <<sent, stash>>
    /\ othersUnchanged

Next ==
    \/ \E p \in Atoms : NewPredicate(p)
    \/ NewNot
    \/ \E q \in Quantifiers : NewQuantifier(q[1], q[2])
    \/ \E tag \in {"And", "Or"} : NewSingle(tag)
    \/ \E tag \in {"And", "Or"} : NewACOperator(tag)
    \/ AddOperand
    \/ NewImplies
    \/ NewIFF
    \/ \E subst \in Substitutions : Substitute(subst)
    \/ \E run \in Runs : Skolemise(run)
    \/ Clean
    \/ Distribute
    \/ \E run \in Runs : Cnf(run)
    \/ Discard

Spec == Init /\ [][Next]_vars

(***************************************************************************)
(* The resolution engine: unifies two Predicates (or two Functions) and    *)
(* applies the unifier to both.                                            *)
(***************************************************************************)
RECURSIVE Tuples(_, _)
Tuples(S, n) == IF n = 0 THEN {<<>>}
                ELSE {Append(q, e) : q \in Tuples(S, n - 1), e \in S}
TuplesUpTo(S, n) == UNION {Tuples(S, k) : k \in 0..n}

ArgumentTerms == {x, y, Function("a", <<>>), Function("b", <<>>), Function("f", <<x>>)}
PredicateInputs == {Predicate(n, args) : n \in {"P", "Q"}, args \in TuplesUpTo(ArgumentTerms, MaxArity)}
FunctionInputs ==
    {Function(n, args) : n \in {"f", "g"},
                         args \in TuplesUpTo({x, Function("a", <<>>), Function("b", <<>>)}, MaxArity)}

InitUnify ==
    /\ ua \in PredicateInputs \cup FunctionInputs
    /\ ub \in PredicateInputs \cup FunctionInputs
    /\ ures = NoUnify
    /\ idleCaller
    /\ idleHeap

UnifyPredicates ==
    /\ IsPredicate(ua)
    /\ ures.op = "none"
    /\ ures' = [op |-> "unify", out |-> PredicateUnify(ua, ub), left |-> NoValue, right |-> NoValue]
    /\ UNCHANGED <<ua, ub, sent, stash, res, objs, symbol, userFuncs>>

UnifyFunctions ==
    /\ IsFunction(ua)
    /\ ures.op = "none"
    /\ ures' = [op |-> "unify", out |-> FunctionUnify(ua, ub), left |-> NoValue, right |-> NoValue]
    /\ UNCHANGED <<ua, ub, sent, stash, res, objs, symbol, userFuncs>>

\* A.substitute(sigma), B.substitute(sigma) with the unifier just computed
ApplyUnifier ==
    /\ ures.op = "unify"
    /\ ures.out.kind = "Substitution"
    /\ IsPredicate(ua) /\ IsPredicate(ub)
    /\ ures' = [ures EXCEPT !.op = "applied",
                            !.left = substitute(ua, ures.out.map),
                            !.right = substitute(ub, ures.out.map)]
    /\ UNCHANGED <<ua, ub, sent, stash, res, objs, symbol, userFuncs>>

NextUnify == UnifyPredicates \/ UnifyFunctions \/ ApplyUnifier

SpecUnify == InitUnify /\ [][NextUnify]_vars

(***************************************************************************)
(* The Exists objects of a run and the Skolem symbols made from their      *)
(* addresses.  objs[o] is the o-th Exists object created (by the caller,   *)
(* or as a copy by a pass), symbol[o] the Function name it was given by    *)
(* Exists.skolemised ("" before that), userFuncs the names of the          *)
(* Functions the caller has built.  id() is the address of an object: no   *)
(* two objects alive at the same time share one, an object that is no      *)
(* longer referenced gives its address back.                               *)
(***************************************************************************)
Objects == 1..MaxObjs
FunctionNames == {"f"} \cup {str(a) : a \in Addresses}

InitHeap ==
    /\ objs = [o \in Objects |-> [state |-> "unborn", id |-> 0]]
    /\ symbol = [o \in Objects |-> ""]
    /\ userFuncs = {}
    /\ idleCaller
    /\ idleUnify

\* Quantifier.__init__ for an Exists: the new object gets a free address
NewExists(o, a) ==
    /\ objs[o].state = "unborn"
    /\ \A p \in Objects : objs[p].state = "live" => objs[p].id # a
    /\ objs' = [objs EXCEPT ![o] = [state |-> "live", id |-> a]]
    /\ UNCHANGED <<symbol, userFuncs, sent, stash, res, ua, ub, ures>>

\* Exists.skolemised: Function(str(id(self)), *variables)
ExistsSkolemised(o) ==
    /\ objs[o].state = "live"
    /\ symbol[o] = ""
    /\ symbol' = [symbol EXCEPT ![o] = str(objs[o].id)]
    /\ UNCHANGED <<objs, userFuncs, sent, stash, res, ua, ub, ures>>

\* the object is no longer referenced (the temporary
\* self.content[0].substitute(s) once skolemised has returned, a sentence the
\* caller dropped)
Release(o) ==
    /\ objs[o].state = "live"
    /\ objs' = [objs EXCEPT ![o].state = "dead"]
    /\ UNCHANGED <<symbol, userFuncs, sent, stash, res, ua, ub, ures>>

\* Function.__init__ by the caller: any name
NewFunction(n) ==
    /\ n \notin userFuncs
    /\ userFuncs' = userFuncs \cup {n}
    /\ UNCHANGED <<objs, symbol, sent, stash, res, ua, ub, ures>>

NextHeap ==
    \/ \E o \in Objects, a \in Addresses : NewExists(o, a)
    \/ \E o \in Objects : ExistsSkolemised(o)
    \/ \E o \in Objects : Release(o)
    \/ \E n \in FunctionNames : NewFunction(n)

SpecHeap == InitHeap /\ [][NextHeap]_vars

(***************************************************************************)
(* Properties                                                              *)
(***************************************************************************)
RECURSIVE SubSentences(_)
SubSentences(s) ==
    IF s.tag \in {"Predicate", "Error", "None"} THEN {s}
    ELSE {s} \cup UNION {SubSentences(k) : k \in Content(s)}

BuiltFrom(s, tags) == \A n \in SubSentences(s) : n.tag \in tags
NotsWrapPredicates(s) ==
    \A n \in SubSentences(s) : n.tag = "Not" => IsPredicate(n.seq[1])
NoOrOverAnd(s) ==
    \A n \in SubSentences(s) : n.tag = "Or" => \A k \in n.set : k.tag # "And"
IsConjunctiveNormalForm(s) ==
    /\ BuiltFrom(s, {"Predicate", "Not", "And", "Or"})
    /\ NotsWrapPredicates(s)
    /\ NoOrOverAnd(s)
IsNegationNormalForm(s) ==
    /\ BuiltFrom(s, {"Predicate", "Not", "And", "Or", "ForAll", "Exists"})
    /\ NotsWrapPredicates(s)

LovesExample == ForAll("x", Exists("y", Predicate("Loves", <<x, y>>)))

\* C1: cnf() returns normally for every sentence and its result is a
\* conjunction of disjunctions of possibly negated Predicates (no Implies, IFF,
\* ForAll or Exists, every Not wraps a Predicate, no Or has an And operand);
\* ForAll(x, Exists(y, Loves(x, y))).cnf() is Loves(x, f1(x)).
CnfReturnsConjunctiveNormalForm ==
    res.op = "cnf" =>
        /\ ~IsError(res.out)
        /\ IsConjunctiveNormalForm(res.out)
        /\ res.arg = LovesExample =>
              \E a \in Addresses :
                  res.out = Predicate("Loves", <<x, Function(str(a), <<x>>)>>)

\* C2: for a sentence built from Predicate, Not, And and Or, distributed()
\* returns a sentence in which no Or has an And operand, and distributing that
\* result again changes nothing.
DistributedReachesFixedPoint ==
    (res.op = "distributed" /\ BuiltFrom(res.arg, {"Predicate", "Not", "And", "Or"})) =>
        /\ ~IsError(res.out)
        /\ NoOrOverAnd(res.out)
        /\ distributed(res.out) = res.out

\* C3: when A.unify(B) returns a substitution sigma for Predicates A and B,
\* A.substitute(sigma) equals B.substitute(sigma).
UnifierIsSound ==
    ures.op = "applied" => ures.left = ures.right

Clash(s, o) ==
    /\ IsFunction(s) /\ IsFunction(o)
    /\ s.name # o.name \/ Len(s.seq) # Len(o.seq)
MustFail(a, b) ==
    \/ a.tag # b.tag
    \/ a.name # b.name
    \/ Len(a.seq) # Len(b.seq)
    \/ \E i \in DOMAIN a.seq : Clash(a.seq[i], b.seq[i])

\* C4: unify raises no exception: it returns a Substitution or the "no unifier"
\* value, and a name mismatch, an arity mismatch or an aligned pair of
\* arguments that cannot be unified makes the result the "no unifier" value,
\* also when further argument pairs follow.
UnifyNeverRaises ==
    ures.op # "none" =>
        /\ ures.out.kind \in {"Substitution", "None"}
        /\ MustFail(ua, ub) => ures.out = None

\* C5: every Exists that is eliminated receives a Skolem symbol different from
\* the symbol of every other Exists, of this call or an earlier one, and
\* different from every Function name the caller uses.
SkolemSymbolsAreFresh ==
    /\ \A o, p \in DOMAIN symbol :
          (o # p /\ symbol[o] # "" /\ symbol[p] # "") => symbol[o] # symbol[p]
    /\ \A o \in DOMAIN symbol : symbol[o] \notin userFuncs

\* C6: for every sentence in negation normal form, also one where a quantifier
\* binds a variable an enclosing quantifier binds already, skolemised() returns
\* without raising and its result has no Exists and no ForAll.
SkolemisedEliminatesQuantifiers ==
    (res.op = "skolemised" /\ IsNegationNormalForm(res.arg)) =>
        /\ ~IsError(res.out)
        /\ \A n \in SubSentences(res.out) : ~IsQuantifier(n)

BindsKey(s, subst) ==
    \E n \in SubSentences(s) : IsQuantifier(n) /\ n.name \in Keys(subst)

\* C7: S.substitute(sigma) raises the capture error (ValueError), which
\* reaches the caller in place of a result and leaves S as it was, exactly when
\* some ForAll or Exists of S binds a key of sigma; it raises nothing else.
SubstituteRaisesOnBoundKey ==
    res.op = "substitute" =>
        /\ sent = res.arg
        /\ BindsKey(res.arg, res.subst) <=> res.out = Err("ValueError")
        /\ ~BindsKey(res.arg, res.subst) => ~IsError(res.out)

\* the capture error comes from a quantifier below the top of the sentence
SubstituteRaisedFromBelow ==
    /\ res.op = "substitute"
    /\ res.out = Err("ValueError")
    /\ ~IsQuantifier(res.arg)
    /\ \A k \in Content(res.arg) : ~IsQuantifier(k)

CleanedClaimTags == {"Predicate", "Not", "And", "Or", "ForAll", "Exists"}

\* C8: for every sentence built from Predicate, Not, And, Or, ForAll and
\* Exists, cleaning the cleaned sentence again returns the same sentence:
\* cleaned(cleaned(S)) = cleaned(S).
CleanedIsIdempotent ==
    (res.op = "cleaned" /\ BuiltFrom(res.arg, CleanedClaimTags)) =>
        /\ ~IsError(res.out)
        /\ cleaned(res.out) = res.out

\* cleaned has flattened an And/Or nested as an operand of the same class
CleanedFlattenedAndDropped ==
    /\ res.op = "cleaned"
    /\ BuiltFrom(res.arg, CleanedClaimTags)
    /\ \E n \in SubSentences(res.arg) :
          /\ IsACOperator(n)
          /\ \E k \in n.set : k.tag = n.tag /\ Cardinality(k.set) >= 2
    /\ IsACOperator(res.out) /\ Cardinality(res.out.set) >= 3
    /\ \A n \in SubSentences(res.out) :
          IsACOperator(n) => \A k \in n.set : k.tag # n.tag

\* the variables bound by a ForAll once negations are pushed inwards
UniversalVariables(s) ==
    LET nnf == negated_inwards(simplified(s), FALSE)
    IN {n.name : n \in {k \in SubSentences(nnf) : k.tag = "ForAll"}}

CnfStages == {res.mid, res.out}

TermVariables(t) == IF IsVariable(t) THEN {t.name} ELSE free_variables(t)

\* a replacement term lands under a quantifier of s that binds one of its
\* Variables; bound is the set of variables bound around s
RECURSIVE Captures(_, _, _)
Captures(s, subst, bound) ==
    IF IsPredicate(s)
    THEN \E p \in subst :
            /\ p[1] \in free_variables(s)
            /\ TermVariables(p[2]) \cap bound # {}
    ELSE IF IsQuantifier(s) THEN Captures(s.seq[1], subst, bound \cup {s.name})
    ELSE \E k \in Content(s) : Captures(k, subst, bound)

\* C10: whenever S.substitute(sigma) returns a result, no Variable of a
\* replacement term has come under a ForAll/Exists of S that binds it.
SubstituteIsCaptureFree ==
    (res.op = "substitute" /\ ~IsError(res.out)) => ~Captures(res.arg, res.subst, {})

====
